---- MODULE Spec2Model ----
(***************************************************************************)
(* lit-motion: the timeline segment-coordination protocol.                 *)
(*                                                                         *)
(* Timeline coordinators (src/timeline.ts) sit on ancestors of the         *)
(* elements that carry Segment registrars (segment.ts).  A registrar       *)
(* announces itself with a bubbling "litmotionsegment" event; a            *)
(* coordinator whose name matches intercepts it, acknowledges it, stores   *)
(* the segment and, once the set is complete, calls the engine's           *)
(* timeline() once.                                                        *)
(*                                                                         *)
(* Coordinators are numbered by depth: coordinator 1 is bound to the       *)
(* nearest ancestor of every segment element, coordinator 2 to the next    *)
(* one up, and so on.  An event dispatched on a segment element therefore  *)
(* reaches the listeners in the order 1, 2, ...                            *)
(*                                                                         *)
(* An exception thrown inside an event listener is reported by the DOM and *)
(* does not end the dispatch: the event keeps propagating.                 *)
(***************************************************************************)
EXTENDS Integers, Sequences, FiniteSets, TLC

\* ---------------------------------------------------------------- bounds
NumCoords == 2      \* coordinators on the ancestor chain
NumRegs == 2        \* segment registrars
MaxIndex == 2       \* largest index a registrar declares
MaxQueue == 2       \* announcements waiting in the microtask queue
MaxCalls == 2       \* cap on recorded engine invocations per coordinator
MaxRuns == 2        \* cap on the engine invocations of the animator
MaxFinished == 2    \* cap on recorded invocations of one finished callback
MaxFlips == 4       \* cap on the predicate flips of the when directive

Coords == 1..NumCoords
Regs == 1..NumRegs
Indices == 0..MaxIndex

\* ------------------------------------------------------------ JS values
Undefined == "undefined"        \* an absent name
NameUnset == "false"            \* Segment.#name before the first update
NoLength == -1                  \* #segmentsLength while it is undefined
NoControls == 0                 \* #controls while it is undefined
Strings == {"t"}                \* string timeline names
Symbols == {"Symbol(s)"}        \* symbol timeline names
Names == Strings \cup Symbols \cup {Undefined}

ErrStarted == "Segments cannot be added after the animation has started."
ErrDuplicate == "Segment at index already exists."
ErrTwoEnds == "Two end segments found."
ErrNoTimeline == "segment directive must be below an element with a timeline directive."

Max(a, b) == IF a >= b THEN a ELSE b

\* A timeline segment is the tuple [element, keyframes]; every declared
\* position i comes with its own keyframes object, written Keyframes(i).
Keyframes(i) == i
NewSegment(r, i) == [element |-> r, keyframes |-> Keyframes(i)]
Hole == [element |-> 0, keyframes |-> -1]      \* a slot that holds nothing

\* A JS array is a sequence whose slots may be holes; index i is slot i+1.
ArrGet(arr, i) == IF i + 1 <= Len(arr) THEN arr[i + 1] ELSE Hole

ArrSet(arr, i, v) ==
  [k \in 1..Max(Len(arr), i + 1) |->
     IF k = i + 1 THEN v ELSE IF k <= Len(arr) THEN arr[k] ELSE Hole]

ArrSetLength(arr, n) ==
  [k \in 1..n |-> IF k <= Len(arr) THEN arr[k] ELSE Hole]

\* typeof x === "object" for the values an array slot can hold
IsObject(x) == x # Hole

\* ---------------------------------------------------------------- state
VARIABLES
  tl,          \* tl[c]: the private fields of Timeline coordinator c
  eng,         \* eng[c]: what the engine was given by c, and its playback
  seg,         \* seg[r]: the private fields of Segment registrar r
  mounted,     \* mounted[r]: part.element.isConnected of registrar r
  microtasks,  \* announcements whose queueDispatch waits in the microtask queue
  an,          \* the private fields of the Animate directive
  runs,        \* runs[k]: the k-th playback the engine started for the animator
  ms,          \* what measure() works on: keyframes, inline style, handlers
  wh,          \* the when directive: #value, what is rendered, done callbacks
  out          \* what the last step did: errors raised, who acknowledged, ...

vars == <<tl, eng, seg, mounted, microtasks, an, runs, ms, wh, out>>

\* options of timeline(); timeline() without options is NoOptions
NoOptions == [name |-> Undefined, finished |-> FALSE, autoplay |-> TRUE]

\* out: the errors raised during the step, as <<who, message>> (who is
\* the coordinator c, or -r for registrar r), and the coordinators whose
\* listener took the announcement as theirs, acknowledged it, stored it.
\* out.event is the announcement dispatched during the step, if any.
NoEvent == [reg |-> 0, name |-> Undefined, index |-> 0, end |-> FALSE, segment |-> Hole]

\* out.returned is the registrar whose update took the early return;
\* out.queued tells that the dispatched announcement had waited in the
\* microtask queue.  out.calls lists, in order, the calls made during the
\* step to the engine, to playback controls and to finished callbacks, as
\* <<method, controls>>; out.early names the early return an update of
\* the animator took.
NoOut ==
  [event |-> NoEvent, errors |-> {}, seenBy |-> {}, ackBy |-> {},
   storedBy |-> {}, returned |-> 0, queued |-> FALSE, calls |-> <<>>,
   early |-> ""]

\* The fields every operation works on, gathered so that the nested calls
\* of one handler (dispatchEvent -> listener -> this.update) compose.
World == [tl |-> tl, eng |-> eng, seg |-> seg, out |-> NoOut, stopped |-> FALSE]

Raise(W, who, msg) == [W EXCEPT !.out.errors = @ \cup {<<who, msg>>}]

\* ------------------------------------------------- Timeline (timeline.ts)
\* update that forgets that the animation has started
NotReadyIgnoringControls(t) ==
  \/ t.segmentsLength # t.segmentsCount
  \/ ~t.isConnected

\* timeline.ts 89-95: the early return of update
NotReady(t) ==
  \/ t.segmentsLength # t.segmentsCount
  \/ ~t.isConnected
  \/ t.controls # NoControls

\* timeline.ts 89-117: update after the listener has been installed
StartIfReady(c, options, W) ==
  LET t == W.tl[c] IN
  IF NotReady(t) THEN W
  ELSE
    LET id == W.eng[c].calls + 1
        playState == IF options.autoplay THEN "running" ELSE "idle"
    IN [W EXCEPT
          !.eng[c] = [calls |-> id, segments |-> t.segments,
                      playState |-> playState, resolved |-> FALSE,
                      cancelled |-> FALSE, finishedCalls |-> 0],
          !.out.calls = Append(@, <<"timeline", id>>),
          !.tl[c].finish = IF options.finished THEN TRUE ELSE @,
          !.tl[c].finishPromise =
             IF options.finished /\ playState # "idle" THEN "pending" ELSE @,
          !.tl[c].controls = id]

\* timeline.ts 58: the announcement is for this coordinator
NameMatches(c, ev, W) == ev.name = W.tl[c].options.name

\* a second end marker replaces the expected length
RecordEndOverwriting(c, ev, W) ==
  IF ev.end
  THEN StartIfReady(c, W.tl[c].options,
         [W EXCEPT
            !.tl[c].segmentsLength = ev.index + 1,
            !.tl[c].segments = ArrSetLength(@, ev.index + 1)])
  ELSE StartIfReady(c, W.tl[c].options, W)

\* timeline.ts 76-84: the end marker fixes the expected length, then update
RecordEnd(c, ev, W) ==
  IF ev.end
  THEN IF W.tl[c].segmentsLength # NoLength
       THEN Raise(W, c, ErrTwoEnds)
       ELSE StartIfReady(c, W.tl[c].options,
              [W EXCEPT
                 !.tl[c].segmentsLength = ev.index + 1,
                 !.tl[c].segments = ArrSetLength(@, ev.index + 1)])
  ELSE StartIfReady(c, W.tl[c].options, W)

\* a segment replaces the one stored at its index
StoreSegmentOverwriting(c, ev, W) ==
  RecordEnd(c, ev,
    [W EXCEPT
       !.tl[c].segments = ArrSet(@, ev.index, ev.segment),
       !.tl[c].segmentsCount = @ + 1,
       !.out.storedBy = @ \cup {c}])

\* timeline.ts 70-74: the segment is stored at its declared index
StoreSegment(c, ev, W) ==
  IF IsObject(ArrGet(W.tl[c].segments, ev.index))
  THEN Raise(W, c, ErrDuplicate)
  ELSE RecordEnd(c, ev,
         [W EXCEPT
            !.tl[c].segments = ArrSet(@, ev.index, ev.segment),
            !.tl[c].segmentsCount = @ + 1,
            !.out.storedBy = @ \cup {c}])

\* timeline.ts 67-68: stopImmediatePropagation, then detail.attached()
Acknowledge(c, ev, W) ==
  [W EXCEPT
     !.stopped = TRUE,
     !.seg[ev.reg].attached = TRUE,
     !.out.ackBy = @ \cup {c}]

\* a listener that takes segments after the animation has started
ListenerAfterStart(c, ev, W) ==
  IF ~NameMatches(c, ev, W) THEN W
  ELSE StoreSegment(c, ev, Acknowledge(c, ev, [W EXCEPT !.out.seenBy = @ \cup {c}]))

\* timeline.ts 55-85: the "litmotionsegment" listener of coordinator c
Listener(c, ev, W) ==
  IF ~NameMatches(c, ev, W) THEN W
  ELSE
    LET W0 == [W EXCEPT !.out.seenBy = @ \cup {c}] IN
    IF W0.tl[c].controls # NoControls
    THEN Raise(W0, c, ErrStarted)
    ELSE StoreSegment(c, ev, Acknowledge(c, ev, W0))

\* The event bubbles from the segment's element through the coordinators,
\* nearest first, until a listener calls stopImmediatePropagation.
RECURSIVE Propagate(_, _, _)
Propagate(c, ev, W) ==
  IF c > NumCoords \/ W.stopped THEN W
  ELSE Propagate(c + 1, ev,
         IF W.tl[c].listenerAdded THEN Listener(c, ev, W) ELSE W)

DispatchEvent(ev, W) ==
  Propagate(1, ev, [W EXCEPT !.stopped = FALSE, !.out.event = ev])

\* ------------------------------------------------- Segment (segment.ts)
\* segment.ts 83: only a string name is put in the event's detail
DetailName(name) == IF name \in Strings THEN name ELSE Undefined

\* segment.ts 68-84
NewEvent(r, name, index, end) ==
  [reg |-> r, name |-> DetailName(name), index |-> index, end |-> end,
   segment |-> NewSegment(r, index)]

\* segment.ts 93-98: the element is connected, the event is dispatched
DispatchNow(ev, W) ==
  LET W1 == DispatchEvent(ev, W) IN
  IF ~W1.seg[ev.reg].attached THEN Raise(W1, -ev.reg, ErrNoTimeline) ELSE W1

\* update that announces again although the registrar is attached
AlreadyRegisteredIgnoringAttached(s, name) ==
  s.name = name /\ ~s.isConnected

\* segment.ts 62: the early return of update
AlreadyRegistered(s, name) ==
  s.name = name /\ (s.attached \/ ~s.isConnected)

Commit(W) ==
  /\ tl' = W.tl
  /\ eng' = W.eng
  /\ seg' = W.seg
  /\ out' = W.out
  /\ UNCHANGED <<an, runs, ms, wh>>

\* --------------------------------------------------- Animate (animate.ts)
\* The variant table the template passes on every render: "a" and "b" are
\* object variants, "f" is a function of the context; "b" brings its own
\* finished callback.  The key "x" is not in the table.
VariantKeys == {"a", "b", "f", "x"}
Contexts == {Undefined, "ctx"}

\* AnimateOptions: which finished callback is given ("absent", the one of
\* the directive's options or the one of the variant) and autoplay.
NoAnimateOptions == [finished |-> "absent", autoplay |-> "absent"]

Variants ==
  [k \in {"a", "b", "f"} |->
     [isFunction |-> k = "f",
      keyframes |-> k,
      options |-> [NoAnimateOptions EXCEPT
                     !.finished = IF k = "b" THEN "variant" ELSE "absent"]]]

ErrNoVariant == "The variant does not exist on the element"
ErrNoContext == "The variant requires a context"

\* animate.ts 104: {...variant.options, ...options}
MergeOptions(variantOptions, options) ==
  [f \in DOMAIN variantOptions |->
     IF options[f] # "absent" THEN options[f] ELSE variantOptions[f]]

\* The fields Animate.update works on.
AnimateWorld == [an |-> an, runs |-> runs, out |-> NoOut]

\* update that never finds the selected variant active
SameVariantNever(A, p) == FALSE

\* animate.ts 83: the selected key is the active one
SameVariant(A, p) == A.an.variant = p.keyframes

\* update that calls a function variant even without a context
VariantErrorIgnoringContext(p) ==
  IF p.keyframes \notin DOMAIN Variants THEN ErrNoVariant ELSE ""

\* animate.ts 86-97: the configuration error of the selected variant, if any
VariantError(p) ==
  IF p.keyframes \notin DOMAIN Variants THEN ErrNoVariant
  ELSE IF Variants[p.keyframes].isFunction /\ p.context = Undefined
       THEN ErrNoContext
       ELSE ""

\* update that leaves the prior playback running
StopSkipped(A) == A

\* animate.ts 105-107: stop the prior playback controls, if any
Stop(A) ==
  IF A.an.controls = NoControls THEN A
  ELSE [A EXCEPT
          !.runs[A.an.controls].playState = "idle",
          !.runs[A.an.controls].stopped = TRUE,
          !.out.calls = Append(@, <<"stop", A.an.controls>>)]

\* update that starts the literal keyframes on every render
AnimatingNever(A) == FALSE

\* animate.ts 109: playback controls exist
Animating(A) == A.an.controls # NoControls

\* animate.ts 115-136: the engine is invoked, the finished-waiter armed
MotionAnimate(keyframes, options, A) ==
  LET id == Len(A.runs) + 1
      playState == IF options.autoplay = "false" THEN "idle" ELSE "running"
      hasFinished == options.finished # "absent"
      armed == hasFinished /\ playState # "idle"
  IN [A EXCEPT
        !.runs = Append(@, [keyframes |-> keyframes,
                            finished |-> options.finished,
                            playState |-> playState,
                            resolved |-> FALSE, cancelled |-> FALSE,
                            stopped |-> FALSE, finishedCalls |-> 0,
                            waiters |-> IF armed THEN 1 ELSE 0]),
        !.out.calls = Append(@, <<"animate", id>>),
        !.an.finish = IF hasFinished THEN id ELSE @,
        !.an.finishPromise = IF armed THEN "pending" ELSE @,
        !.an.controls = id]

\* animate.ts 73-137: Animate.update with parameters p
UpdateAnimate(p, A) ==
  IF ~A.an.isConnected THEN [A EXCEPT !.out.early = "disconnected"]
  ELSE IF p.variants
  THEN IF SameVariant(A, p) THEN [A EXCEPT !.out.early = "sameVariant"]
       ELSE IF VariantError(p) # ""
       THEN [A EXCEPT !.out.errors = @ \cup {<<0, VariantError(p)>>}]
       ELSE MotionAnimate(Variants[p.keyframes].keyframes,
              MergeOptions(Variants[p.keyframes].options, p.options),
              Stop([A EXCEPT !.an.variant = p.keyframes]))
  ELSE IF Animating(A) THEN [A EXCEPT !.out.early = "animating"]
       ELSE MotionAnimate(p.keyframes, p.options, A)

CommitAnimate(A) ==
  /\ an' = A.an
  /\ runs' = A.runs
  /\ out' = A.out
  /\ UNCHANGED <<tl, eng, seg, mounted, microtasks, ms, wh>>

\* ------------------------------------ measure (the Animate of unnamed/part_002)
\* The geometric properties measure() goes through, in its order.
Attributes == <<"width", "height", "top", "left", "right", "bottom">>
AttributeSet == {Attributes[i] : i \in DOMAIN Attributes}

\* A keyframe of one property: absent from the definition, a single
\* value, or an array of values.
Absent == [kind |-> "absent", values |-> <<>>]
Single(v) == [kind |-> "single", values |-> <<v>>]
Array(vs) == [kind |-> "array", values |-> vs]
Last(vs) == vs[Len(vs)]

\* window.getComputedStyle(element)[attribute]: layout resolves an unset
\* or "auto" inline style to a length.
Measured == "10px"
GetComputedStyle(style, a) ==
  IF style[a] \in {"", "auto"} THEN Measured ELSE style[a]

\* part_002 247-259: the style is set to the keyframe, the computed value
\* read, the style restored; a handler is queued that sets the style to
\* the keyframe when the animation finishes.  Gives <<value, M>>.
GetMeasuredValue(a, keyframe, M) ==
  LET original == M.style[a]
      styled == [M.style EXCEPT ![a] = keyframe]
      value == GetComputedStyle(styled, a)
  IN <<value,
       [M EXCEPT !.style = [styled EXCEPT ![a] = original],
                 !.finishHandlers = Append(@, <<a, keyframe>>)]>>

\* part_002 216-245: the loop of measure() from the i-th property on
RECURSIVE MeasureFrom(_, _)
MeasureFrom(i, M) ==
  IF i > Len(Attributes) THEN M
  ELSE
    LET a == Attributes[i]
        keyframe == M.keyframes[a]
        M1 == IF M.style[a] = "auto"
              THEN [M EXCEPT !.style[a] = GetComputedStyle(M.style, a)]
              ELSE M
    IN
    IF keyframe.kind = "absent" THEN MeasureFrom(i + 1, M)
    ELSE IF keyframe.kind = "array"
    THEN IF Last(keyframe.values) # "auto"
         THEN M1
         ELSE LET r == GetMeasuredValue(a, Last(keyframe.values), M1) IN
              MeasureFrom(i + 1,
                [r[2] EXCEPT !.keyframes[a].values[Len(keyframe.values)] = r[1]])
    ELSE IF keyframe.values = <<"auto">>
    THEN LET r == GetMeasuredValue(a, "auto", M1) IN
         MeasureFrom(i + 1, [r[2] EXCEPT !.keyframes[a] = Single(r[1])])
    ELSE MeasureFrom(i + 1, M1)

\* nothing to measure
\* The animator of part_002 around it: whether it is connected and has
\* controls, the keyframes the engine was given, the state of that
\* playback, whether the waiter on its completion signal is pending, and
\* how often the finished callback was invoked.
NoMeasurement ==
  [keyframes |-> [a \in AttributeSet |-> Absent],
   style |-> [a \in AttributeSet |-> ""],
   finishHandlers |-> <<>>, measured |-> FALSE,
   isConnected |-> TRUE, controls |-> FALSE,
   engineKeyframes |-> [a \in AttributeSet |-> Absent],
   playState |-> "none", resolved |-> FALSE, cancelled |-> FALSE,
   waiting |-> FALSE, finishedCalls |-> 0]

\* part_002 127-129: the queued handlers run in order; a measurement
\* handler sets the inline style to the keyframe it was queued with, the
\* last handler is the finished callback
RECURSIVE RunHandlers(_, _)
RunHandlers(handlers, M) ==
  IF handlers = <<>> THEN M
  ELSE LET h == Head(handlers) IN
       RunHandlers(Tail(handlers),
         IF h[1] = "finished"
         THEN [M EXCEPT !.finishedCalls = @ + 1]
         ELSE [M EXCEPT !.style[h[1]] = h[2]])

\* ------------------------------------------------------------ operations
TypeOK ==
  /\ \A c \in Coords :
       /\ tl[c].segmentsCount \in Nat
       /\ tl[c].controls \in 0..MaxCalls
       /\ Len(tl[c].segments) <= MaxIndex + 1
  /\ Len(microtasks) <= MaxQueue
  /\ an.controls \in 0..Len(runs)
  /\ an.finish \in 0..Len(runs)
  /\ Len(runs) <= MaxRuns

\* the directives as constructed
InitDirectives ==
  /\ tl = [c \in Coords |->
             [listenerAdded |-> FALSE, options |-> NoOptions,
              segments |-> <<>>, segmentsCount |-> 0,
              segmentsLength |-> NoLength, controls |-> NoControls,
              finish |-> FALSE, finishPromise |-> "null",
              isConnected |-> TRUE]]
  /\ eng = [c \in Coords |->
              [calls |-> 0, segments |-> <<>>, playState |-> "none",
               resolved |-> FALSE, cancelled |-> FALSE, finishedCalls |-> 0]]
  /\ seg = [r \in Regs |->
              [name |-> NameUnset, attached |-> FALSE, isConnected |-> TRUE]]
  /\ microtasks = <<>>
  /\ an = [variant |-> Undefined, controls |-> NoControls, finish |-> 0,
           finishPromise |-> "false", isConnected |-> TRUE]
  /\ runs = <<>>
  /\ wh = [value |-> FALSE, flips |-> 0, rendered |-> "nothing",
           dones |-> {}, lastDone |-> 0]
  /\ out = NoOut

\* the elements of the registrars are not in the document yet
Init ==
  /\ InitDirectives
  /\ mounted = [r \in Regs |-> FALSE]
  /\ ms = NoMeasurement

\* the elements of the registrars are in the document
InitMounted ==
  /\ InitDirectives
  /\ mounted = [r \in Regs |-> TRUE]
  /\ ms = NoMeasurement

\* timeline.ts 53-118: Timeline.update
TimelineUpdate(c, options) ==
  /\ eng[c].calls < MaxCalls
  /\ LET W0 == IF tl[c].listenerAdded THEN World
               ELSE [World EXCEPT !.tl[c].listenerAdded = TRUE,
                                  !.tl[c].options = options]
     IN Commit(StartIfReady(c, options, W0))
  /\ UNCHANGED <<mounted, microtasks>>

\* timeline.ts 128-133: Timeline.disconnected
TimelineDisconnected(c) ==
  /\ tl[c].listenerAdded
  /\ tl[c].isConnected
  /\ LET W0 == [World EXCEPT !.tl[c].isConnected = FALSE] IN
     Commit(IF tl[c].controls = NoControls THEN W0
            ELSE [W0 EXCEPT
                    !.eng[c].playState = "idle",
                    !.eng[c].cancelled = TRUE,
                    !.out.calls = Append(@, <<"cancel", tl[c].controls>>)])
  /\ UNCHANGED <<mounted, microtasks>>

\* timeline.ts 135-143: Timeline.reconnected
TimelineReconnected(c) ==
  /\ tl[c].listenerAdded
  /\ ~tl[c].isConnected
  /\ LET W0 == [World EXCEPT !.tl[c].isConnected = TRUE] IN
     Commit(IF tl[c].controls = NoControls THEN W0
            ELSE [W0 EXCEPT
                    !.eng[c].playState = "running",
                    !.out.calls = Append(@, <<"play", tl[c].controls>>),
                    !.tl[c].finishPromise =
                       IF tl[c].finish /\ @ = "null" THEN "pending" ELSE @])
  /\ UNCHANGED <<mounted, microtasks>>

\* update that drops the announcement of an element that is not mounted
SegmentUpdateDropping(r, name, index, end) ==
  LET s == seg[r] IN
  IF AlreadyRegistered(s, name)
  THEN /\ Commit([World EXCEPT !.out.returned = r])
       /\ UNCHANGED <<mounted, microtasks>>
  ELSE
    LET ev == NewEvent(r, name, index, end)
        W0 == [World EXCEPT !.seg[r].name = name,
                            !.seg[r].attached = FALSE]
    IN
    /\ UNCHANGED <<mounted, microtasks>>
    /\ Commit(IF mounted[r] THEN DispatchNow(ev, W0) ELSE W0)

\* segment.ts 58-102: Segment.update
SegmentUpdate(r, name, index, end) ==
  LET s == seg[r] IN
  IF AlreadyRegistered(s, name)
  THEN /\ Commit([World EXCEPT !.out.returned = r])
       /\ UNCHANGED <<mounted, microtasks>>
  ELSE
    LET ev == NewEvent(r, name, index, end)
        W0 == [World EXCEPT !.seg[r].name = name,
                            !.seg[r].attached = FALSE]
    IN
    /\ UNCHANGED mounted
    /\ IF ~mounted[r]
       THEN /\ Len(microtasks) < MaxQueue
            /\ microtasks' = Append(microtasks, ev)
            /\ Commit(W0)
       ELSE /\ UNCHANGED microtasks
            /\ Commit(DispatchNow(ev, W0))

\* queueDispatch that dispatches without waiting for the element
QueueDispatchUnconditional ==
  /\ microtasks # <<>>
  /\ microtasks' = Tail(microtasks)
  /\ Commit(DispatchNow(Head(microtasks), [World EXCEPT !.out.queued = TRUE]))
  /\ UNCHANGED mounted

\* segment.ts 88-99: queueDispatch run from the microtask queue
QueueDispatch ==
  /\ microtasks # <<>>
  /\ LET ev == Head(microtasks) IN
     IF ~mounted[ev.reg]
     THEN /\ microtasks' = Append(Tail(microtasks), ev)
          /\ Commit(World)
     ELSE /\ microtasks' = Tail(microtasks)
          /\ Commit(DispatchNow(ev, [World EXCEPT !.out.queued = TRUE]))
  /\ UNCHANGED mounted

\* The render host inserts the element of registrar r in the document,
\* or removes it.
Mount(r) ==
  /\ ~mounted[r]
  /\ mounted' = [mounted EXCEPT ![r] = TRUE]
  /\ Commit(World)
  /\ UNCHANGED microtasks

Unmount(r) ==
  /\ mounted[r]
  /\ mounted' = [mounted EXCEPT ![r] = FALSE]
  /\ Commit(World)
  /\ UNCHANGED microtasks

\* The render host disconnects or reconnects the part of registrar r;
\* Segment overrides neither hook, only isConnected changes.
SegmentDisconnected(r) ==
  /\ seg[r].name # NameUnset
  /\ seg[r].isConnected
  /\ Commit([World EXCEPT !.seg[r].isConnected = FALSE])
  /\ UNCHANGED <<mounted, microtasks>>

SegmentReconnected(r) ==
  /\ seg[r].name # NameUnset
  /\ ~seg[r].isConnected
  /\ Commit([World EXCEPT !.seg[r].isConnected = TRUE])
  /\ UNCHANGED <<mounted, microtasks>>

\* The engine completes the playback of coordinator c: its completion
\* signal resolves, once, and never for a playback that was cancelled.
TimelineComplete(c) ==
  /\ tl[c].controls # NoControls
  /\ eng[c].playState = "running"
  /\ ~eng[c].resolved
  /\ ~eng[c].cancelled
  /\ Commit([World EXCEPT !.eng[c].resolved = TRUE,
                          !.eng[c].playState = "finished"])
  /\ UNCHANGED <<mounted, microtasks>>

\* timeline.ts 104-108: the armed finish resumes after its await
TimelineFinish(c) ==
  /\ tl[c].finishPromise = "pending"
  /\ eng[c].resolved
  /\ eng[c].finishedCalls < MaxFinished
  /\ Commit([World EXCEPT
               !.eng[c].finishedCalls = @ + 1,
               !.tl[c].finishPromise = "null",
               !.out.calls = Append(@, <<"finished", tl[c].controls>>)])
  /\ UNCHANGED <<mounted, microtasks>>

\* animate.ts 73-137: Animate.update
AnimateUpdate(p) ==
  LET A == UpdateAnimate(p, AnimateWorld) IN
  /\ Len(A.runs) <= MaxRuns
  /\ CommitAnimate(A)

\* disconnected that forgets the playback controls
AnimateDisconnectedDropping ==
  /\ an.isConnected
  /\ CommitAnimate(
       [AnimateWorld EXCEPT !.an.isConnected = FALSE,
                            !.an.controls = NoControls])

\* animate.ts 150-155: Animate.disconnected
AnimateDisconnected ==
  /\ an.isConnected
  /\ LET A == [AnimateWorld EXCEPT !.an.isConnected = FALSE] IN
     CommitAnimate(
       IF an.controls = NoControls THEN A
       ELSE [A EXCEPT
               !.runs[an.controls].playState = "idle",
               !.runs[an.controls].cancelled = TRUE,
               !.out.calls = Append(@, <<"cancel", an.controls>>)])

\* animate.ts 157-165: Animate.reconnected
AnimateReconnected ==
  /\ ~an.isConnected
  /\ LET A == [AnimateWorld EXCEPT !.an.isConnected = TRUE]
         rearm == an.finish # 0 /\ an.finishPromise = "false"
     IN
     CommitAnimate(
       IF an.controls = NoControls THEN A
       ELSE LET A1 == [A EXCEPT
                         !.runs[an.controls].playState = "running",
                         !.out.calls = Append(@, <<"play", an.controls>>)]
            IN IF rearm
               THEN [A1 EXCEPT !.runs[an.finish].waiters = @ + 1,
                               !.an.finishPromise = "pending"]
               ELSE A1)

\* The engine completes playback k of the animator: its completion signal
\* resolves, once, and never for a playback that was cancelled or stopped.
AnimateComplete(k) ==
  /\ k \in 1..Len(runs)
  /\ runs[k].playState = "running"
  /\ ~runs[k].resolved
  /\ ~runs[k].cancelled
  /\ ~runs[k].stopped
  /\ CommitAnimate([AnimateWorld EXCEPT !.runs[k].resolved = TRUE,
                                        !.runs[k].playState = "finished"])

\* finish that does not await the completion signal
AnimateFinishEarly(k) ==
  /\ k \in 1..Len(runs)
  /\ runs[k].waiters > 0
  /\ runs[k].finishedCalls < MaxFinished
  /\ CommitAnimate([AnimateWorld EXCEPT
                      !.runs[k].waiters = @ - 1,
                      !.runs[k].finishedCalls = @ + 1,
                      !.an.finishPromise = "false",
                      !.out.calls = Append(@, <<"finished", k>>)])

\* animate.ts 123-127: a finish armed for playback k resumes after its await
AnimateFinish(k) ==
  /\ k \in 1..Len(runs)
  /\ runs[k].waiters > 0
  /\ runs[k].resolved
  /\ runs[k].finishedCalls < MaxFinished
  /\ CommitAnimate([AnimateWorld EXCEPT
                      !.runs[k].waiters = @ - 1,
                      !.runs[k].finishedCalls = @ + 1,
                      !.an.finishPromise = "false",
                      !.out.calls = Append(@, <<"finished", k>>)])

\* part_002 113-114: measure(part, keyframes, finishHandlers), called by
\* update before the engine is invoked
Measure ==
  /\ ~ms.measured
  /\ ms' = [MeasureFrom(1, ms) EXCEPT !.measured = TRUE]
  /\ out' = NoOut
  /\ UNCHANGED <<tl, eng, seg, mounted, microtasks, an, runs, wh>>

\* part_002 70-133: Animate.update with literal keyframes, the keyframes
\* object being ms.keyframes
MeasuredUpdate(finished) ==
  /\ out' = NoOut
  /\ UNCHANGED <<tl, eng, seg, mounted, microtasks, an, runs, wh>>
  /\ IF ~ms.isConnected \/ ms.controls
     THEN UNCHANGED ms
     ELSE LET M == MeasureFrom(1, ms) IN
          ms' = [M EXCEPT
                   !.measured = TRUE,
                   !.engineKeyframes = M.keyframes,
                   !.finishHandlers =
                      IF finished THEN Append(@, <<"finished", "">>) ELSE @,
                   !.controls = TRUE,
                   !.playState = "running",
                   !.waiting = TRUE]

\* part_002 146-151: Animate.disconnected
MeasuredDisconnected ==
  /\ ms.isConnected
  /\ ms' = IF ms.controls
           THEN [ms EXCEPT !.isConnected = FALSE, !.playState = "idle",
                           !.cancelled = TRUE]
           ELSE [ms EXCEPT !.isConnected = FALSE]
  /\ out' = NoOut
  /\ UNCHANGED <<tl, eng, seg, mounted, microtasks, an, runs, wh>>

\* part_002 153-158: Animate.reconnected
MeasuredReconnected ==
  /\ ~ms.isConnected
  /\ ms' = IF ms.controls
           THEN [ms EXCEPT !.isConnected = TRUE, !.playState = "running"]
           ELSE [ms EXCEPT !.isConnected = TRUE]
  /\ out' = NoOut
  /\ UNCHANGED <<tl, eng, seg, mounted, microtasks, an, runs, wh>>

\* The engine completes the playback: its completion signal resolves,
\* once, and never for a playback that was cancelled.
MeasuredComplete ==
  /\ ms.playState = "running"
  /\ ~ms.resolved
  /\ ~ms.cancelled
  /\ ms' = [ms EXCEPT !.resolved = TRUE, !.playState = "finished"]
  /\ out' = NoOut
  /\ UNCHANGED <<tl, eng, seg, mounted, microtasks, an, runs, wh>>

\* part_002 125-130: the waiter resumes after its await and runs the handlers
MeasuredFinish ==
  /\ ms.waiting
  /\ ms.resolved
  /\ ms' = [RunHandlers(ms.finishHandlers, ms) EXCEPT !.waiting = FALSE]
  /\ out' = NoOut
  /\ UNCHANGED <<tl, eng, seg, mounted, microtasks, an, runs, wh>>

\* when.ts 16-18, 24, 30: the branch trueCase() or falseCase?.() gives
Branch(value, hasFalseCase) ==
  IF value THEN "true" ELSE IF hasFalseCase THEN "false" ELSE "nothing"

\* when.ts 8-32: WhenDirective.update.  On a flip the outgoing branch is
\* rendered with a done callback, kept in wh.dones as <<flip, branch it
\* sets>>.
WhenUpdate(predicate, hasFalseCase) ==
  /\ IF predicate = wh.value
     THEN wh' = [wh EXCEPT !.rendered = Branch(wh.value, hasFalseCase)]
     ELSE /\ wh.flips < MaxFlips
          /\ LET flip == wh.flips + 1
                 flipped == [wh EXCEPT !.value = predicate, !.flips = flip]
             IN
             IF predicate /\ ~hasFalseCase
             THEN wh' = [flipped EXCEPT !.rendered = "true"]
             ELSE wh' = [flipped EXCEPT
                           !.rendered = Branch(~predicate, hasFalseCase),
                           !.dones = @ \cup
                              {<<flip, Branch(predicate, hasFalseCase)>>}]
  /\ out' = NoOut
  /\ UNCHANGED <<tl, eng, seg, mounted, microtasks, an, runs, ms>>

\* when.ts 23-25, 29-31: a branch invokes the done callback d it was given
WhenDone(d) ==
  /\ d \in wh.dones
  /\ wh' = [wh EXCEPT !.rendered = d[2], !.lastDone = d[1]]
  /\ out' = NoOut
  /\ UNCHANGED <<tl, eng, seg, mounted, microtasks, an, runs, ms>>

\* inputs of the operations
OrderSet == Indices \X BOOLEAN

\* ------------------------------------------------------- specifications
\* One unnamed coordinator collects what the registrars announce.  The
\* elements are in the document, so every announcement is dispatched at
\* once; a registrar declares any position, and declares the timeline
\* name "t" (no coordinator has it) or none.
CoreNames == {Undefined, "t"}

NextCore ==
  \/ TimelineUpdate(1, NoOptions)
  \/ TimelineDisconnected(1)
  \/ TimelineReconnected(1)
  \/ \E r \in Regs, n \in CoreNames, o \in OrderSet : SegmentUpdate(r, n, o[1], o[2])

Spec == InitMounted /\ [][NextCore]_vars

\* A timeline of NumRegs segments declared exactly: registrar r declares
\* index r-1, the last one with the end marker; nothing is named.  The
\* elements are mounted (and can be removed again) by the render host at
\* any time, so the announcements arrive in any order.
ExactIndex(r) == r - 1
ExactEnd(r) == r = NumRegs

NextExact ==
  \/ TimelineUpdate(1, NoOptions)
  \/ TimelineDisconnected(1)
  \/ TimelineReconnected(1)
  \/ \E r \in Regs : SegmentUpdate(r, Undefined, ExactIndex(r), ExactEnd(r))
  \/ QueueDispatch
  \/ \E r \in Regs : Mount(r)
  \/ \E r \in Regs : Unmount(r)

SpecExact == Init /\ [][NextExact]_vars

\* One coordinator and the registrars, each with any of the names; the
\* template passes the coordinator the same options on every render.
TimelineOptionSet == {[NoOptions EXCEPT !.name = n] : n \in Names}

NextNames ==
  \/ \E o \in TimelineOptionSet :
       /\ tl[1].listenerAdded => o = tl[1].options
       /\ TimelineUpdate(1, o)
  \/ TimelineDisconnected(1)
  \/ TimelineReconnected(1)
  \/ \E r \in Regs, n \in Names : SegmentUpdate(r, n, ExactIndex(r), ExactEnd(r))

SpecNames == InitMounted /\ [][NextNames]_vars

\* All the coordinators of the chain are unnamed, so every one of them
\* matches the announcements of the registrars that declare no name.
NextNested ==
  \/ \E c \in Coords : TimelineUpdate(c, NoOptions)
  \/ \E c \in Coords : TimelineDisconnected(c)
  \/ \E c \in Coords : TimelineReconnected(c)
  \/ \E r \in Regs, n \in CoreNames : SegmentUpdate(r, n, ExactIndex(r), ExactEnd(r))

SpecNested == InitMounted /\ [][NextNested]_vars

\* The registrars from construction on: updates before and after the
\* element is mounted, the microtask retry loop, disconnection and
\* reconnection of the part, under one unnamed coordinator.
NextQueue ==
  \/ TimelineUpdate(1, NoOptions)
  \/ \E r \in Regs, n \in CoreNames : SegmentUpdate(r, n, ExactIndex(r), ExactEnd(r))
  \/ QueueDispatch
  \/ \E r \in Regs : Mount(r)
  \/ \E r \in Regs : SegmentDisconnected(r)
  \/ \E r \in Regs : SegmentReconnected(r)

SpecQueue == Init /\ [][NextQueue]_vars

\* The retry loop of queueDispatch: the exact timeline of SpecExact under
\* a connected coordinator, with the microtask queue scheduled fairly (a
\* queued microtask is always run).
NextMount ==
  \/ TimelineUpdate(1, NoOptions)
  \/ \E r \in Regs : SegmentUpdate(r, Undefined, ExactIndex(r), ExactEnd(r))
  \/ QueueDispatch
  \/ \E r \in Regs : Mount(r)
  \/ \E r \in Regs : Unmount(r)

SpecMountFair == Init /\ [][NextMount]_vars /\ WF_vars(QueueDispatch)

\* The parameters a template passes to animate(): literal keyframes, or a
\* key of the variant table with an optional context.
AnimateOptionSet == [finished : {"absent", "top"}, autoplay : {"absent", "false"}]

SimpleParameters ==
  {[variants |-> FALSE, keyframes |-> "k", context |-> Undefined, options |-> o] :
     o \in AnimateOptionSet}

VariantParameters ==
  {[variants |-> TRUE, keyframes |-> k, context |-> x,
    options |-> [NoAnimateOptions EXCEPT !.finished = f]] :
     k \in VariantKeys, x \in Contexts, f \in {"absent", "top"}}

\* One animator rendered with variants or with literal keyframes, its
\* part disconnected and reconnected by the render host, the engine
\* completing playbacks.
NextAnimate ==
  \/ \E p \in SimpleParameters \cup VariantParameters : AnimateUpdate(p)
  \/ AnimateDisconnected
  \/ AnimateReconnected
  \/ \E k \in 1..MaxRuns : AnimateComplete(k)

SpecAnimate == Init /\ [][NextAnimate]_vars

\* The playback of one coordinator: the exact timeline with the elements
\* mounted, with or without a finished callback and autoplay, the engine
\* completing the playback.
TimelinePlaybackOptionSet ==
  {[NoOptions EXCEPT !.finished = f, !.autoplay = a] : f, a \in BOOLEAN}

\* A coordinator next to an animator that is only ever rendered with
\* literal keyframes.
NextSimplePlayback ==
  \/ \E o \in TimelinePlaybackOptionSet :
       /\ tl[1].listenerAdded => o = tl[1].options
       /\ TimelineUpdate(1, o)
  \/ \E r \in Regs : SegmentUpdate(r, Undefined, ExactIndex(r), ExactEnd(r))
  \/ TimelineDisconnected(1)
  \/ TimelineReconnected(1)
  \/ TimelineComplete(1)
  \/ TimelineFinish(1)
  \/ \E p \in SimpleParameters : AnimateUpdate(p)
  \/ AnimateDisconnected
  \/ AnimateReconnected
  \/ \E k \in 1..MaxRuns : AnimateComplete(k)
  \/ \E k \in 1..MaxRuns : AnimateFinish(k)

SpecSimple == InitMounted /\ [][NextSimplePlayback]_vars

\* The playback life cycle of both directives: a coordinator with a
\* finished callback, and an animator rendered with literal keyframes or
\* switched between the object variants.
PlaybackParameters ==
  {p \in SimpleParameters \cup VariantParameters :
     /\ p.options.autoplay = "absent"
     /\ p.context = Undefined
     /\ p.variants => (p.keyframes \in {"a", "b"} /\ p.options.finished = "absent")}

NextPlayback ==
  \/ TimelineUpdate(1, [NoOptions EXCEPT !.finished = TRUE])
  \/ \E r \in Regs : SegmentUpdate(r, Undefined, ExactIndex(r), ExactEnd(r))
  \/ TimelineDisconnected(1)
  \/ TimelineReconnected(1)
  \/ TimelineComplete(1)
  \/ TimelineFinish(1)
  \/ \E p \in PlaybackParameters : AnimateUpdate(p)
  \/ AnimateDisconnected
  \/ AnimateReconnected
  \/ \E k \in 1..MaxRuns : AnimateComplete(k)
  \/ \E k \in 1..MaxRuns : AnimateFinish(k)

SpecPlayback == InitMounted /\ [][NextPlayback]_vars

\* measure() as a function: any keyframe definition over the six
\* geometric properties, each property absent, a single value or an array
\* of two values, on an element whose inline style is unset or "auto".
KeyframeValues ==
  {Absent, Single("auto"), Single("100px"),
   Array(<<"0px", "auto">>), Array(<<"0px", "100px">>),
   Array(<<"auto", "100px">>)}

InitMeasure ==
  /\ InitDirectives
  /\ mounted = [r \in Regs |-> TRUE]
  /\ \E keyframes \in [AttributeSet -> KeyframeValues], v \in {"", "auto"} :
       ms = [NoMeasurement EXCEPT !.keyframes = keyframes,
                                  !.style = [a \in AttributeSet |-> v]]

SpecMeasure == InitMeasure /\ [][Measure]_vars

\* The animator of part_002 rendered once or more with one keyframe
\* definition over width, height and top, with or without a finished
\* callback, disconnected and reconnected, the engine completing.
InitMeasured ==
  /\ InitDirectives
  /\ mounted = [r \in Regs |-> TRUE]
  /\ \E keyframes \in [AttributeSet -> KeyframeValues], v \in {"", "auto"} :
       /\ \A a \in AttributeSet \ {"width", "height", "top"} :
            keyframes[a] = Absent
       /\ ms = [NoMeasurement EXCEPT !.keyframes = keyframes,
                                     !.style = [a \in AttributeSet |-> v]]

NextMeasured ==
  \/ \E finished \in BOOLEAN : MeasuredUpdate(finished)
  \/ MeasuredDisconnected
  \/ MeasuredReconnected
  \/ MeasuredComplete
  \/ MeasuredFinish

SpecMeasured == InitMeasured /\ [][NextMeasured]_vars

\* The when directive rendered with any predicate, with or without a
\* false case; the rendered branches invoke their done callbacks at any
\* time, any number of times.
DoneCallbacks == (1..MaxFlips) \X {"true", "false", "nothing"}

NextWhen ==
  \/ \E predicate, hasFalseCase \in BOOLEAN : WhenUpdate(predicate, hasFalseCase)
  \/ \E d \in DoneCallbacks : WhenDone(d)

SpecWhen == Init /\ [][NextWhen]_vars

\* ---------------------------------------------------------------- claims
Started(c) == tl[c].controls # NoControls

\* C1: a coordinator invokes the engine's timeline call at most once,
\* whatever updates, announcements, disconnections and reconnections occur.
C1_TimelineCalledAtMostOnce == \A c \in Coords : eng[c].calls <= 1

\* the animation has started and a later announcement was turned away
C1_Witness == eng[1].calls = 1 /\ <<1, ErrStarted>> \in out.errors /\ ~tl[1].isConnected

\* C3: when the animation has started with expected length L, the sequence
\* handed to the engine has every index 0..L-1 populated, slot i holding the
\* segment announced with index i.
C3_StartedGapless ==
  \A c \in Coords :
    Started(c) =>
      \A i \in 0..(tl[c].segmentsLength - 1) :
        /\ IsObject(ArrGet(eng[c].segments, i))
        /\ ArrGet(eng[c].segments, i).keyframes = Keyframes(i)

\* C4: a coordinator that has not started and intercepts an announcement
\* whose index is occupied raises the duplicate-index error and keeps the
\* segment it had stored there.
C4_DuplicateIndexRejected ==
  [][\A c \in out'.ackBy :
       IsObject(ArrGet(tl[c].segments, out'.event.index)) =>
         /\ <<c, ErrDuplicate>> \in out'.errors
         /\ ArrGet(tl'[c].segments, out'.event.index)
              = ArrGet(tl[c].segments, out'.event.index)]_vars

C4_Witness ==
  /\ <<1, ErrDuplicate>> \in out.errors
  /\ IsObject(ArrGet(tl[1].segments, out.event.index))
  /\ ArrGet(tl[1].segments, out.event.index) # out.event.segment

\* C5: a coordinator whose expected length is set and that intercepts a
\* second end-marked announcement at a free index raises the two-ends error
\* and keeps the expected length of the first end marker.
C5_SecondEndRejected ==
  [][\A c \in out'.ackBy :
       ( /\ tl[c].segmentsLength # NoLength
         /\ out'.event.end
         /\ ~IsObject(ArrGet(tl[c].segments, out'.event.index)) ) =>
         /\ <<c, ErrTwoEnds>> \in out'.errors
         /\ tl'[c].segmentsLength = tl[c].segmentsLength]_vars

C5_Witness ==
  /\ <<1, ErrTwoEnds>> \in out.errors
  /\ tl[1].segmentsLength # NoLength
  /\ tl[1].segmentsLength # out.event.index + 1

\* C6: once the animation has started, every later matching announcement is
\* rejected with the already-started error, and the segment collection, the
\* filled-count and the expected length never change again.
C6_FrozenAfterStart ==
  [][\A c \in Coords :
       Started(c) =>
         /\ tl'[c].segments = tl[c].segments
         /\ tl'[c].segmentsCount = tl[c].segmentsCount
         /\ tl'[c].segmentsLength = tl[c].segmentsLength
         /\ c \in out'.seenBy =>
              (<<c, ErrStarted>> \in out'.errors /\ c \notin out'.ackBy)]_vars

C6_Witness == Started(1) /\ <<1, ErrStarted>> \in out.errors /\ tl[1].isConnected

\* every registrar of the timeline has been acknowledged
AllAcknowledged == \A r \in Regs : seg[r].attached

\* C2: for a timeline declared exactly (indices 0..N-1, end marker on N-1),
\* the animation is started if and only if all N segments have been
\* acknowledged and the coordinator is connected: not before, and as soon
\* as both hold, whichever of the last acknowledgment and the reconnection
\* comes last.
C2_StartedIffCompleteAndConnected ==
  /\ [](Started(1) => AllAcknowledged)
  /\ [][(~Started(1) /\ Started(1)') => tl'[1].isConnected]_vars
  /\ []((AllAcknowledged /\ tl[1].isConnected) => Started(1))

\* the name the registrar of the dispatched announcement declares
DeclaredName == seg[out.event.reg].name

\* C7: a coordinator acknowledges and stores an announcement only if the
\* name the registrar declares (string, symbol or absent) equals the name
\* the coordinator is configured with; otherwise the announcement is left
\* alone and keeps propagating.
C7_TakenOnlyIfNamesEqual ==
  out.event.reg # 0 =>
    \A c \in Coords :
      (c \in out.seenBy \/ c \in out.ackBy \/ c \in out.storedBy)
        => DeclaredName = tl[c].options.name

\* the nearest coordinator whose listener matches the announcement
IsNearestMatching(c, ev) ==
  /\ tl[c].listenerAdded
  /\ NameMatches(c, ev, World)
  /\ \A d \in Coords :
       d < c => ~(tl[d].listenerAdded /\ NameMatches(d, ev, World))

\* C8: with several coordinators of the same name above a segment, an
\* announcement is acknowledged and stored by the nearest matching one only,
\* and is never seen by two of them, whatever state the nearest is in.
C8_NearestCoordinatorOnly ==
  out.event.reg # 0 =>
    /\ \A c \in out.seenBy \cup out.ackBy \cup out.storedBy :
         IsNearestMatching(c, out.event)
    /\ Cardinality(out.seenBy) <= 1

\* C9: after a dispatch during which no coordinator invoked the
\* acknowledgment callback the registrar raises its error and is
\* unattached; after one during which it was invoked the registrar raises
\* nothing and is attached.
C9_ErrorIffNotAcknowledged ==
  out.event.reg # 0 =>
    LET r == out.event.reg IN
    IF out.ackBy = {}
    THEN <<-r, ErrNoTimeline>> \in out.errors /\ ~seg[r].attached
    ELSE <<-r, ErrNoTimeline>> \notin out.errors /\ seg[r].attached

\* the step is an update of registrar r that declares the name it is
\* attached for
UpdateWhileAttached(r) ==
  /\ seg[r].attached
  /\ \E i \in Indices, e \in BOOLEAN : SegmentUpdate(r, seg[r].name, i, e)

\* the step acknowledges an announcement of a registrar that is already
\* attached for the name it declares
SecondAcknowledgment(r) ==
  /\ seg[r].attached
  /\ seg'[r].name = seg[r].name
  /\ out'.event.reg = r
  /\ out'.event.name = DetailName(seg[r].name)
  /\ out'.ackBy # {}

\* C10 as stated: updates of an attached registrar with the same name
\* create and dispatch no announcement, and a registrar has at most one
\* announcement acknowledged per run of the same name.
C10_OneAcknowledgmentPerRun ==
  [][\A r \in Regs :
       /\ UpdateWhileAttached(r) =>
            (microtasks' = microtasks /\ out'.event = NoEvent)
       /\ ~SecondAcknowledgment(r)]_vars

\* C10 amended: updates of an attached registrar with the same name create
\* and dispatch no announcement; an announcement acknowledged while the
\* registrar is already attached is one that waited in the microtask queue
\* since before the acknowledgment.
C10_NoAnnouncementOnceAttached ==
  [][\A r \in Regs :
       /\ UpdateWhileAttached(r) =>
            (microtasks' = microtasks /\ out'.event = NoEvent)
       /\ SecondAcknowledgment(r) =>
            (microtasks # <<>> /\ out'.event = Head(microtasks)
               /\ microtasks' = Tail(microtasks))]_vars

\* an attached registrar has been updated again with its name: nothing
\* was announced and it is still attached
C10_Witness ==
  \E r \in Regs :
    /\ out.returned = r
    /\ seg[r].attached
    /\ seg[r].isConnected
    /\ mounted[r]

\* the step is an update of registrar r, unattached, that declares the
\* name it declared before
UpdateWhileUnattached(r) ==
  /\ seg[r].name # NameUnset
  /\ ~seg[r].attached
  /\ \E i \in Indices, e \in BOOLEAN : SegmentUpdate(r, seg[r].name, i, e)

\* the step creates an announcement of registrar r: it is dispatched in the
\* step, or it joins the microtask queue
Announced(r) ==
  \/ /\ out'.event.reg = r
     /\ ~out'.queued
     /\ microtasks' = microtasks
  \/ /\ Len(microtasks') = Len(microtasks) + 1
     /\ microtasks'[Len(microtasks')].reg = r
     /\ out'.event = NoEvent

\* C11 as stated: every update with an unchanged name of a registrar that
\* is still unattached creates a new announcement.
C11_UnattachedUpdateAnnounces ==
  [][\A r \in Regs : UpdateWhileUnattached(r) => Announced(r)]_vars

\* C11 amended: an update with an unchanged name of an unattached registrar
\* creates a new announcement if the registrar's part is connected (it is
\* dispatched in the update when the element is mounted, and waits in the
\* microtask queue otherwise); if the part is disconnected the update
\* creates none.
C11_ConnectedUnattachedUpdateAnnounces ==
  [][\A r \in Regs :
       UpdateWhileUnattached(r) =>
         IF seg[r].isConnected
         THEN /\ Announced(r)
              /\ mounted[r] <=> out'.event.reg = r
         ELSE /\ microtasks' = microtasks
              /\ out'.event = NoEvent
              /\ out'.returned = r]_vars

\* two announcements of one unattached registrar, of the same name, wait
C11_Witness ==
  \E r \in Regs :
    /\ Len(microtasks) >= 2
    /\ microtasks[1].reg = r
    /\ microtasks[2].reg = r
    /\ microtasks[1].name = microtasks[2].name
    /\ DetailName(seg[r].name) = microtasks[2].name
    /\ ~seg[r].attached
    /\ seg[r].isConnected

\* an announcement of registrar r waits in the microtask queue
Pending(r) == \E k \in 1..Len(microtasks) : microtasks[k].reg = r

\* C12: an announcement is never dispatched while its element is not
\* mounted; an announcement leaves the microtask queue only by being
\* dispatched, once; while the element is not mounted the announcement
\* stays in the retry loop; and if the element ends up mounted, the
\* fairly scheduled retry loop dispatches the announcement.
C12_DispatchedOnceWhenMounted ==
  /\ [][/\ out'.event.reg # 0 =>
             (mounted[out'.event.reg] /\ mounted'[out'.event.reg])
        /\ \/ microtasks' = microtasks /\ ~out'.queued
           \/ /\ Len(microtasks') = Len(microtasks) + 1
              /\ SubSeq(microtasks', 1, Len(microtasks)) = microtasks
              /\ out'.event = NoEvent
           \/ /\ microtasks # <<>>
              /\ ~mounted[Head(microtasks).reg]
              /\ microtasks' = Append(Tail(microtasks), Head(microtasks))
              /\ out'.event = NoEvent
           \/ /\ microtasks # <<>>
              /\ mounted[Head(microtasks).reg]
              /\ microtasks' = Tail(microtasks)
              /\ out'.queued
              /\ out'.event = Head(microtasks)]_vars
  /\ \A r \in Regs : (<>[]mounted[r]) => ([]<>~Pending(r))

\* an announcement that waited for its element has been dispatched and
\* acknowledged, while another still waits for an element not mounted
C12_Witness ==
  /\ out.queued
  /\ out.event.reg # 0
  /\ out.ackBy = {1}
  /\ \E r \in Regs : Pending(r) /\ ~mounted[r]

\* the update the step makes selects the variant that is already active
SelectsActive(p) == p.variants /\ p.keyframes = an.variant /\ AnimateUpdate(p)

\* C13: an update of the animator that selects the variant key that is
\* already active invokes nothing (no engine invocation, no stop) and
\* leaves the active key, the controls, the playbacks and their pending
\* finished-waiters as they are, in every state the animator can be in.
C13_SameVariantIsNoOp ==
  [][\A p \in VariantParameters :
       SelectsActive(p) =>
         /\ out'.calls = <<>>
         /\ out'.errors = {}
         /\ an' = an
         /\ runs' = runs]_vars

\* the active variant was selected again while its playback runs with a
\* finished-waiter pending
C13_Witness ==
  /\ out.early = "sameVariant"
  /\ an.controls # NoControls
  /\ runs[an.controls].playState = "running"
  /\ runs[an.controls].waiters = 1
  /\ an.finishPromise = "pending"

\* the update the step makes on the connected animator selects a key of
\* the variant table other than the active one
SwitchesVariant(p) ==
  /\ an.isConnected
  /\ p.variants
  /\ p.keyframes \in DOMAIN Variants
  /\ p.keyframes # an.variant
  /\ AnimateUpdate(p)

\* the prior controls were stopped, then the engine invoked once with the
\* keyframes of the variant; the key and the new controls are the active ones
Switched(p) ==
  /\ out'.calls =
       (IF an.controls # NoControls THEN << <<"stop", an.controls>> >> ELSE <<>>)
         \o << <<"animate", Len(runs) + 1>> >>
  /\ an.controls # NoControls => runs'[an.controls].stopped
  /\ Len(runs') = Len(runs) + 1
  /\ runs'[Len(runs')].keyframes = Variants[p.keyframes].keyframes
  /\ an'.variant = p.keyframes
  /\ an'.controls = Len(runs')

\* C14 as stated: every update of a connected animator that selects an
\* existing variant key other than the active one stops the prior
\* controls, then invokes the engine once with the variant's keyframes,
\* and makes the key and the new controls the active ones.
C14_SwitchStopsThenStarts ==
  [][\A p \in VariantParameters : SwitchesVariant(p) => Switched(p)]_vars

\* C14, amended: the same, for a variant that is an object or a function
\* variant given a context.
C14_ResolvedSwitchStopsThenStarts ==
  [][\A p \in VariantParameters :
       (SwitchesVariant(p) /\
          ~(Variants[p.keyframes].isFunction /\ p.context = Undefined))
         => Switched(p)]_vars

\* a running playback was stopped and the function variant started
C14_Witness ==
  /\ out.calls = << <<"stop", 1>>, <<"animate", 2>> >>
  /\ an.variant = "f"
  /\ an.controls = 2
  /\ runs[1].stopped
  /\ runs[2].keyframes = "f"

\* C15: an animator only ever rendered with literal keyframes invokes the
\* engine at most once, whatever updates, disconnections, reconnections
\* and completions occur; once controls exist an update changes nothing.
C15_LiteralKeyframesStartOnce ==
  /\ [](Len(runs) <= 1)
  /\ [][\A p \in SimpleParameters :
          (an.controls # NoControls /\ AnimateUpdate(p)) =>
            /\ out'.calls = <<>>
            /\ an' = an
            /\ runs' = runs]_vars

\* an update found the controls in place after a disconnection and a
\* reconnection
C15_Witness ==
  /\ out.early = "animating"
  /\ Len(runs) = 1
  /\ runs[1].cancelled
  /\ an.isConnected

\* the update the step makes on the connected animator names a key absent
\* from the table, or a function variant without a context
Misconfigured(p) ==
  /\ an.isConnected
  /\ p.variants
  /\ \/ p.keyframes \notin DOMAIN Variants
     \/ Variants[p.keyframes].isFunction /\ p.context = Undefined
  /\ AnimateUpdate(p)

\* an error is raised and the animator is as before
Rejected ==
  /\ out'.errors # {}
  /\ out'.calls = <<>>
  /\ an' = an
  /\ runs' = runs

\* C16 as stated: every update of a connected animator that names an
\* absent key or a function variant without a context raises an error and
\* leaves the animator unchanged.
C16_ConfigurationErrorRaised ==
  [][\A p \in VariantParameters : Misconfigured(p) => Rejected]_vars

\* C16, amended: the same, for a key other than the active one.
C16_InactiveConfigurationErrorRaised ==
  [][\A p \in VariantParameters :
       (Misconfigured(p) /\ p.keyframes # an.variant) => Rejected]_vars

\* the function variant was selected without a context while variant "a"
\* plays: the error is raised, "a" is still active and running
C16_Witness ==
  /\ <<0, ErrNoContext>> \in out.errors
  /\ an.variant = "a"
  /\ an.controls # NoControls
  /\ runs[an.controls].playState = "running"
  /\ ~runs[an.controls].stopped

\* C17: once controls exist, a disconnection of the animator or of a
\* coordinator calls cancel on them and nothing else, a reconnection calls
\* play on them and nothing else; neither invokes the engine nor replaces
\* the controls.
C17_DisconnectCancelsReconnectPlays ==
  [][/\ (an.controls # NoControls /\ AnimateDisconnected) =>
          /\ out'.calls = << <<"cancel", an.controls>> >>
          /\ an'.controls = an.controls
          /\ Len(runs') = Len(runs)
     /\ (an.controls # NoControls /\ AnimateReconnected) =>
          /\ out'.calls = << <<"play", an.controls>> >>
          /\ an'.controls = an.controls
          /\ Len(runs') = Len(runs)
     /\ \A c \in Coords :
          /\ (tl[c].controls # NoControls /\ TimelineDisconnected(c)) =>
               /\ out'.calls = << <<"cancel", tl[c].controls>> >>
               /\ tl'[c].controls = tl[c].controls
               /\ eng'[c].calls = eng[c].calls
               /\ eng'[c].segments = eng[c].segments
          /\ (tl[c].controls # NoControls /\ TimelineReconnected(c)) =>
               /\ out'.calls = << <<"play", tl[c].controls>> >>
               /\ tl'[c].controls = tl[c].controls
               /\ eng'[c].calls = eng[c].calls
               /\ eng'[c].segments = eng[c].segments]_vars

\* the animator has just been reconnected after a cancellation, next to a
\* coordinator that has been through a cancellation and a reconnection
C17_Witness ==
  /\ out.calls = << <<"play", 1>> >>
  /\ an.isConnected
  /\ an.controls = 1
  /\ runs[1].cancelled
  /\ runs[1].playState = "running"
  /\ tl[1].isConnected
  /\ tl[1].controls = 1
  /\ eng[1].cancelled
  /\ eng[1].playState = "running"

\* C18: the finished callback of one playback, of the animator or of a
\* coordinator, is invoked at most once.
C18_FinishedAtMostOnce ==
  /\ \A k \in 1..Len(runs) : runs[k].finishedCalls <= 1
  /\ \A c \in Coords : eng[c].finishedCalls <= 1

\* C19: the finished callback of a playback that was cancelled by a
\* disconnection before it completed is never invoked, and no
\* disconnection invokes a finished callback.
C19_NoFinishedAfterCancel ==
  /\ [](/\ \A k \in 1..Len(runs) :
             (runs[k].cancelled /\ ~runs[k].resolved) => runs[k].finishedCalls = 0
        /\ \A c \in Coords :
             (eng[c].cancelled /\ ~eng[c].resolved) => eng[c].finishedCalls = 0)
  /\ [][(AnimateDisconnected \/ \E c \in Coords : TimelineDisconnected(c)) =>
          \A i \in 1..Len(out'.calls) : out'.calls[i][1] # "finished"]_vars

\* both playbacks were cancelled before completing and resumed with their
\* finished-waiters pending; no callback was invoked
C19_Witness ==
  /\ Len(runs) >= 1
  /\ runs[1].cancelled /\ ~runs[1].resolved
  /\ runs[1].waiters > 0
  /\ runs[1].playState = "running"
  /\ eng[1].cancelled /\ ~eng[1].resolved
  /\ tl[1].finishPromise = "pending"
  /\ eng[1].playState = "running"

\* the terminal value of a keyframe
Terminal(keyframe) == Last(keyframe.values)

\* C20: after measure(), no property of the keyframe definition has a
\* terminal value "auto", whatever the other properties are.
C20_NoTerminalAuto ==
  ms.measured =>
    \A a \in AttributeSet :
      ms.keyframes[a].kind # "absent" => Terminal(ms.keyframes[a]) # "auto"

\* the terminal value of the keyframe of property a is "auto"
TerminalAuto(a) ==
  ms.keyframes[a].kind # "absent" /\ Terminal(ms.keyframes[a]) = "auto"

\* the update that starts the playback
StartingUpdate ==
  /\ ms.isConnected
  /\ ~ms.controls
  /\ \E finished \in BOOLEAN : MeasuredUpdate(finished)

\* the inline style after measuring: what it was, an "auto" style having
\* been replaced by its computed value
Concrete(style, a) == IF style[a] = "auto" THEN Measured ELSE style[a]

\* C21, measuring: the update leaves the inline style of a property with
\* terminal "auto" as it was (an "auto" style made concrete) and hands the
\* engine the measured value as its terminal keyframe.
C21_MeasuredThenStarted ==
  [][StartingUpdate =>
       \A a \in AttributeSet :
         TerminalAuto(a) =>
           /\ ms'.style[a] = Concrete(ms.style, a)
           /\ ms'.engineKeyframes[a].kind # "absent"
           /\ Terminal(ms'.engineKeyframes[a]) = Measured]_vars

\* C21, restoring: the inline style of a property becomes "auto" only in
\* the step in which the waiter resumes, the completion signal having
\* fired; a cancelled playback that never completed leaves it alone.
C21_RestoredOnlyAfterCompletion ==
  /\ [][\A a \in AttributeSet :
          (ms.style[a] # "auto" /\ ms'.style[a] = "auto") =>
            (ms.resolved /\ ms.waiting /\ ~ms'.waiting)]_vars
  /\ [][(ms.controls /\ MeasuredFinish) =>
          \A a \in AttributeSet :
            (/\ ms.engineKeyframes[a].kind # "absent"
             /\ Terminal(ms.engineKeyframes[a]) = Measured)
              => ms'.style[a] = "auto"]_vars

\* C21: for a property whose terminal keyframe value is "auto", measuring
\* leaves the inline style as it was, the engine gets the measured value,
\* and the inline style is set back to "auto" only after the completion
\* signal has fired, with or without a finished callback.
C21_AutoMeasuredAnimatedRestored ==
  /\ C21_MeasuredThenStarted
  /\ C21_RestoredOnlyAfterCompletion

\* C22: a slot of a coordinator's collection that holds a segment holds
\* that same segment after every step.
C22_StoredSegmentsStay ==
  [][\A c \in Coords : \A i \in Indices :
       IsObject(ArrGet(tl[c].segments, i)) =>
         ArrGet(tl'[c].segments, i) = ArrGet(tl[c].segments, i)]_vars

\* coordinator c raised an error during the step
Rejects(c) == \E e \in out'.errors : e[1] = c

\* C23: a step in which a coordinator rejects an announcement with an
\* error leaves its segment collection, its filled-count and its expected
\* length as they were.
C23_RejectionChangesNothing ==
  [][\A c \in Coords :
       Rejects(c) =>
         /\ tl'[c].segments = tl[c].segments
         /\ tl'[c].segmentsCount = tl[c].segmentsCount
         /\ tl'[c].segmentsLength = tl[c].segmentsLength]_vars

\* the coordinators that hold the segment of announcement ev at its index
Holders(ev) ==
  {c \in Coords : ArrGet(tl[c].segments, ev.index) = ev.segment}

\* C24: after the dispatch of a registrar's announcement, the registrar is
\* marked attached only if exactly one coordinator holds the announced
\* segment at its index, and is not marked attached if a coordinator
\* rejected the announcement.
C24_AttachedOnlyIfStored ==
  \A r \in Regs :
    (out.event.reg = r /\ seg[r].attached) =>
      /\ Cardinality(Holders(out.event)) = 1
      /\ \A e \in out.errors : e[1] \notin Coords

\* the step arms a waiter on the completion signal of playback k
ArmsWaiter(k) ==
  runs'[k].waiters > (IF k <= Len(runs) THEN runs[k].waiters ELSE 0)

\* C25: a waiter, which is what invokes a finished callback, is armed only
\* on the animator's current controls: after a switch of variant nothing
\* arms a waiter on the controls of an earlier variant's playback.
C25_OnlyCurrentRunFinishes ==
  [][\A k \in 1..Len(runs') : ArmsWaiter(k) => k = an'.controls]_vars

\* C26: whenever a done callback is invoked, the value it sets is the
\* branch of the current predicate.
C26_DoneSetsCurrentBranch ==
  [][\A d \in DoneCallbacks :
       WhenDone(d) =>
         IF wh.value THEN wh'.rendered = "true"
         ELSE wh'.rendered \in {"false", "nothing"}]_vars

====
